---- MODULE Spec2Model ----
(***************************************************************************)
(* The encrypted credential store of lock (src/lock.py): PasswordManager   *)
(* keeps the decoded database in self.contents and rewrites the whole      *)
(* encrypted file on every mutation.                                       *)
(*                                                                         *)
(* A Python dict is a sequence of <<key, value>> pairs with unique keys,   *)
(* in insertion order.  JSON text is a sequence of tokens.  A sealed blob  *)
(* is the record of the key, the nonce and the plaintext it was made from; *)
(* it opens only under the key that sealed it.                             *)
(***************************************************************************)
EXTENDS Integers, Sequences, FiniteSets, TLC

VARIABLES
    file,       \* the file at database_path: [exists, data]
    opened,     \* a PasswordManager has been constructed and is alive
    box,        \* self.box: the key of the SecretBox
    contents,   \* self.contents: the in-memory database
    central,    \* a CentralWidget holds self.contents = pm.read()
    shown,      \* the titles of the group boxes the CentralWidget shows
    window,     \* the MainWindow of widgets.py: its entries and flags
    second,     \* another PasswordManager on the same path: [opened, box, contents]
    last        \* the last call: its arguments, inputs, outcome and pre-state

vars == <<file, opened, box, contents, central, shown, window, second, last>>

----------------------------------------------------------------------------
(* Bounds and input domains *)

MaxNonce == 2       \* nonces are drawn from 0 .. MaxNonce-1

Names == {"Google", "Microsoft"}
Passwords == {"", "1234", "5678"}
Replies == {"y", "Yes", "n", ""}
TypedPasswords == {"1234"}

\* Answers to the name/definition prompts of read_entry_value
InputScripts ==
    { << >>,
      << <<"Username", "Alice">> >>,
      << <<"Username", "">> >>,
      << <<"Password", "">>, <<"Username", "Alice">>, <<"", "">> >> }

\* Caller-supplied entry values (dicts in insertion order)
Values ==
    { << <<"Username", "Alice">>, <<"Password", "1234">> >>,
      << <<"Username", "Alice">>, <<"Password", "5678">> >>,
      << >> }

Nonces == 0 .. (MaxNonce - 1)

\* password_generate is called with the lengths 0 .. MaxLength
MaxLength == 4

\* widgets.py: field pairs per entry and names queued for deletion
MaxFieldPairs == 2
MaxToDelete == 1

\* Databases of the round trip: every dict, in every insertion order, of at
\* most MaxRoundTripEntries entries over these names, fields and texts
MaxRoundTripEntries == 2
RoundTripNames == {"", "Google", "Microsoft"}
RoundTripFields == {"Password", "Username"}
RoundTripTexts == {"", "1234"}

RECURSIVE DictsOver(_, _, _)
DictsOver(keys, values, n) ==
    IF n = 0 THEN {<<>>}
    ELSE LET shorter == DictsOver(keys, values, n - 1)
         IN  shorter \cup
             {Append(d, <<k, v>>) :
                 d \in {x \in shorter : Len(x) = n - 1},
                 k \in keys, v \in values}


----------------------------------------------------------------------------
(* Python values *)

None == [t |-> "None", items |-> <<>>]
Dict(items) == [t |-> "dict", items |-> items]

DictKeys(d) == {d[i][1] : i \in DOMAIN d}
DictHas(d, k) == \E i \in DOMAIN d : d[i][1] = k
DictIndex(d, k) == CHOOSE i \in DOMAIN d : d[i][1] = k
DictGetItem(d, k) == d[DictIndex(d, k)][2]
DictGet(d, k) == IF DictHas(d, k) THEN Dict(DictGetItem(d, k)) ELSE None
DictSetItem(d, k, v) ==
    IF DictHas(d, k) THEN [d EXCEPT ![DictIndex(d, k)] = <<k, v>>]
    ELSE Append(d, <<k, v>>)
\* dict.update, used by the mutants that merge
RECURSIVE DictUpdate(_, _)
DictUpdate(d, other) ==
    IF other = <<>> THEN d
    ELSE DictUpdate(DictSetItem(d, Head(other)[1], Head(other)[2]), Tail(other))

\* Mutant: removes the entry inserted last instead of the named one
DictPopItem(d, k) == SubSeq(d, 1, Len(d) - 1)

DictDelItem(d, k) == SelectSeq(d, LAMBDA e : e[1] # k)

\* dict equality ignores insertion order
AsMap(d) == [k \in DictKeys(d) |-> DictGetItem(d, k)]
DbAsMap(db) == [k \in DictKeys(db) |-> AsMap(DictGetItem(db, k))]
DbEq(a, b) == DbAsMap(a) = DbAsMap(b)

\* str < str on the strings the model uses (code point order)
StrOrder == <<"", "Google", "Microsoft", "Password", "Username">>
StrRank(s) == CHOOSE i \in DOMAIN StrOrder : StrOrder[i] = s
StrLe(a, b) == StrRank(a) <= StrRank(b)

\* Mutant: the reply is compared without lower()
LowerMissing(s) == s

\* str.lower on the replies
Lower(s) == CASE s = "Yes" -> "yes" [] s = "Y" -> "y" [] OTHER -> s

----------------------------------------------------------------------------
(* json.dumps(..., separators=(',', ':'), sort_keys=True) and json.loads *)

LBrace == <<"punct", "{">>
RBrace == <<"punct", "}">>
Colon == <<"punct", ":">>
Comma == <<"punct", ",">>
Str(s) == <<"str", s>>

RECURSIVE SortedKeys(_)
SortedKeys(S) ==
    IF S = {} THEN <<>>
    ELSE LET m == CHOOSE x \in S : \A y \in S : StrLe(x, y)
         IN  <<m>> \o SortedKeys(S \ {m})

RECURSIVE DumpsFields(_, _)
DumpsFields(value, keys) ==
    IF keys = <<>> THEN <<>>
    ELSE <<Str(Head(keys)), Colon, Str(DictGetItem(value, Head(keys)))>>
         \o (IF Len(keys) > 1 THEN <<Comma>> ELSE <<>>)
         \o DumpsFields(value, Tail(keys))

\* Mutant: sort_keys is missing, the fields come in insertion order
DumpsValueUnsorted(value) ==
    <<LBrace>> \o DumpsFields(value, [i \in DOMAIN value |-> value[i][1]])
               \o <<RBrace>>

DumpsValue(value) ==
    <<LBrace>> \o DumpsFields(value, SortedKeys(DictKeys(value))) \o <<RBrace>>

\* Mutant: the last entry is left out
RECURSIVE DumpsEntriesOffByOne(_, _)
DumpsEntriesOffByOne(db, keys) ==
    IF Len(keys) <= 1 THEN <<>>
    ELSE <<Str(Head(keys)), Colon>> \o DumpsValue(DictGetItem(db, Head(keys)))
         \o (IF Len(keys) > 2 THEN <<Comma>> ELSE <<>>)
         \o DumpsEntriesOffByOne(db, Tail(keys))

RECURSIVE DumpsEntries(_, _)
DumpsEntries(db, keys) ==
    IF keys = <<>> THEN <<>>
    ELSE <<Str(Head(keys)), Colon>> \o DumpsValue(DictGetItem(db, Head(keys)))
         \o (IF Len(keys) > 1 THEN <<Comma>> ELSE <<>>)
         \o DumpsEntries(db, Tail(keys))

Dumps(db) ==
    <<LBrace>> \o DumpsEntries(db, SortedKeys(DictKeys(db))) \o <<RBrace>>

\* members of an inner object from token i on; [value, next]
RECURSIVE LoadsFields(_, _, _)
LoadsFields(toks, i, acc) ==
    IF toks[i] = RBrace THEN [value |-> acc, next |-> i + 1]
    ELSE IF toks[i] = Comma THEN LoadsFields(toks, i + 1, acc)
    ELSE LoadsFields(toks, i + 3, DictSetItem(acc, toks[i][2], toks[i + 2][2]))

\* members of the outer object from token i on
RECURSIVE LoadsEntries(_, _, _)
LoadsEntries(toks, i, acc) ==
    IF toks[i] = RBrace THEN acc
    ELSE IF toks[i] = Comma THEN LoadsEntries(toks, i + 1, acc)
    ELSE LET inner == LoadsFields(toks, i + 3, <<>>)
         IN  LoadsEntries(toks, inner.next,
                          DictSetItem(acc, toks[i][2], inner.value))

Loads(toks) == LoadsEntries(toks, 2, <<>>)

\* the literal '{}' written for a new database
EmptyJson == <<LBrace, RBrace>>

----------------------------------------------------------------------------
(* hashlib.blake2b and nacl.secret.SecretBox *)

Blake2b(password) == <<"blake2b", password>>

NoBlob == [key |-> <<>>, nonce |-> 0, pt |-> <<>>]
NoFile == [exists |-> FALSE, data |-> NoBlob]
FileOf(blob) == [exists |-> TRUE, data |-> blob]

Encrypt(key, nonce, plaintext) == [key |-> key, nonce |-> nonce, pt |-> plaintext]
Decrypt(key, blob) ==
    IF blob.key = key THEN [ok |-> TRUE, pt |-> blob.pt]
    ELSE [ok |-> FALSE, pt |-> <<>>]

----------------------------------------------------------------------------
(* The record of a call *)

Call(op) ==
    [op |-> op, hasKey |-> FALSE, key |-> "", arg |-> None, value |-> <<>>,
     interactive |-> FALSE, reply |-> "", prompted |-> FALSE, password |-> "",
     outcome |-> "ok", err |-> "", wrote |-> FALSE, asked |-> FALSE,
     ret |-> <<>>, before |-> contents, fileBefore |-> file,
     cmd |-> "", code |-> 0]

Raise(call, exception, argument) ==
    [call EXCEPT !.outcome = exception, !.err = argument]

\* no MainWindow of widgets.py
NoWindow ==
    [open |-> FALSE, entries |-> <<>>, to_delete |-> <<>>,
     saved_entry_removed |-> FALSE]

\* no PasswordManager: nothing constructed, or the object was dropped
NoStore == [opened |-> FALSE, box |-> <<>>, contents |-> <<>>]

Init ==
    /\ file = NoFile
    /\ opened = FALSE
    /\ box = <<>>
    /\ contents = <<>>
    /\ central = FALSE
    /\ shown = {}
    /\ window = NoWindow
    /\ second = NoStore
    /\ last = [op |-> "none", hasKey |-> FALSE, key |-> "", arg |-> None,
               value |-> <<>>, interactive |-> FALSE, reply |-> "",
               prompted |-> FALSE, password |-> "",
               outcome |-> "ok", err |-> "", wrote |-> FALSE, asked |-> FALSE,
               ret |-> <<>>, before |-> <<>>, fileBefore |-> NoFile,
               cmd |-> "", code |-> 0]

----------------------------------------------------------------------------
(* PasswordManager *)

\* Mutant: the new database is written without the os.path.exists test
OpenAlwaysCreates(prompted, password, nonce) ==
    /\ ~opened
    /\ LET call == [Call("open") EXCEPT !.prompted = prompted,
                                        !.password = password]
           key == Blake2b(password)
           created == FileOf(Encrypt(key, nonce, EmptyJson))
           plain == Decrypt(key, created.data)
       IN  IF prompted /\ password = ""
           THEN /\ last' = Raise(call, "SystemExit", "1")
                /\ UNCHANGED <<file, opened, box, contents, central, shown, window, second>>
           ELSE /\ file' = created
                /\ opened' = TRUE
                /\ box' = key
                /\ contents' = Loads(plain.pt)
                /\ last' = [call EXCEPT !.wrote = TRUE]
                /\ UNCHANGED <<central, shown, window, second>>

\* Mutant: a file that does not decrypt is replaced by a new database
OpenResetsOnFailure(prompted, password, nonce) ==
    /\ ~opened
    /\ LET call == [Call("open") EXCEPT !.prompted = prompted,
                                        !.password = password]
           key == Blake2b(password)
           created == FileOf(Encrypt(key, nonce, EmptyJson))
           usable == file.exists /\ Decrypt(key, file.data).ok
           onDisk == IF usable THEN file ELSE created
           plain == Decrypt(key, onDisk.data)
       IN  IF prompted /\ password = ""
           THEN /\ last' = Raise(call, "SystemExit", "1")
                /\ UNCHANGED <<file, opened, box, contents, central, shown, window, second>>
           ELSE /\ file' = onDisk
                /\ opened' = TRUE
                /\ box' = key
                /\ contents' = Loads(plain.pt)
                /\ last' = [call EXCEPT !.wrote = ~usable]
                /\ UNCHANGED <<central, shown, window, second>>

\* Mutant: self.contents starts empty instead of being loaded from the file
OpenForgetsLoad(prompted, password, nonce) ==
    /\ ~opened
    /\ LET call == [Call("open") EXCEPT !.prompted = prompted,
                                        !.password = password]
           key == Blake2b(password)
           created == FileOf(Encrypt(key, nonce, EmptyJson))
           onDisk == IF file.exists THEN file ELSE created
           plain == Decrypt(key, onDisk.data)
       IN  IF prompted /\ password = ""
           THEN /\ last' = Raise(call, "SystemExit", "1")
                /\ UNCHANGED <<file, opened, box, contents, central, shown, window, second>>
           ELSE /\ file' = onDisk
                /\ IF plain.ok
                   THEN /\ opened' = TRUE
                        /\ box' = key
                        /\ contents' = <<>>
                        /\ last' = [call EXCEPT !.wrote = ~file.exists]
                   ELSE /\ last' = Raise(call, "CryptoError", "")
                        /\ UNCHANGED <<opened, box, contents>>
                /\ UNCHANGED <<central, shown, window, second>>

\* __init__(database_path, gui, password): password is prompted when None
Open(prompted, password, nonce) ==
    /\ ~opened
    /\ LET call == [Call("open") EXCEPT !.prompted = prompted,
                                        !.password = password]
           key == Blake2b(password)
           created == FileOf(Encrypt(key, nonce, EmptyJson))
           onDisk == IF file.exists THEN file ELSE created
           plain == Decrypt(key, onDisk.data)
       IN  IF prompted /\ password = ""
           THEN /\ last' = Raise(call, "SystemExit", "1")
                /\ UNCHANGED <<file, opened, box, contents, central, shown, window, second>>
           ELSE /\ file' = onDisk
                /\ IF plain.ok
                   THEN /\ opened' = TRUE
                        /\ box' = key
                        /\ contents' = Loads(plain.pt)
                        /\ last' = [call EXCEPT !.wrote = ~file.exists]
                   ELSE /\ last' = Raise(call, "CryptoError", "")
                        /\ UNCHANGED <<opened, box, contents>>
                /\ UNCHANGED <<central, shown, window, second>>

\* read_entry_value: the password, then name/definition pairs until an
\* empty answer; running out of inputs is the empty name that ends the loop
RECURSIVE ReadEntryFields(_, _)
ReadEntryFields(entry_value, inputs) ==
    IF inputs = <<>> THEN entry_value
    ELSE LET entry_value_name == Head(inputs)[1]
             entry_value_definition == Head(inputs)[2]
         IN  IF entry_value_name = "" THEN entry_value
             ELSE IF entry_value_name = "Password"
                  THEN ReadEntryFields(entry_value, Tail(inputs))
             ELSE IF entry_value_definition = "" THEN entry_value
             ELSE ReadEntryFields(
                      DictSetItem(entry_value, entry_value_name,
                                  entry_value_definition),
                      Tail(inputs))

ReadEntryValue(password, inputs) ==
    ReadEntryFields(<< <<"Password", password>> >>, inputs)

\* box.encrypt draws a random nonce: any but the one of the blob on disk
FreshNonces == Nonces \ {file.data.nonce}

\* Mutant: the entries another writer left in the file are kept
PersistMerged(db, nonce) ==
    LET current == Decrypt(box, file.data)
        merged == IF file.exists /\ current.ok
                  THEN DictUpdate(Loads(current.pt), db)
                  ELSE db
    IN  FileOf(Encrypt(box, nonce, Dumps(merged)))

\* json.dumps, box.encrypt, open(database_path, 'wb').write
Persist(db, nonce) == FileOf(Encrypt(box, nonce, Dumps(db)))

\* Mutant: the existence test is "if self.contents.get(entry_key):", so an
\* entry whose value is the empty dict counts as absent
CreateTruthy(entry_key, entry_value, password, inputs, nonce) ==
    /\ opened
    /\ LET call == [Call("create") EXCEPT !.hasKey = TRUE, !.key = entry_key,
                                          !.arg = entry_value]
       IN  IF DictGet(contents, entry_key) \notin {None, Dict(<<>>)}
           THEN /\ last' = Raise(call, "EntryExistsError", entry_key)
                /\ UNCHANGED <<file, contents>>
           ELSE LET value == IF entry_value = None
                             THEN ReadEntryValue(password, inputs)
                             ELSE entry_value.items
                    new == DictSetItem(contents, entry_key, value)
                IN  /\ contents' = new
                    /\ file' = Persist(new, nonce)
                    /\ last' = [call EXCEPT !.value = value, !.wrote = TRUE]
    /\ UNCHANGED <<opened, box, central, shown, window, second>>

\* Mutant: the plaintext is dumped before the entry is inserted
CreateDumpsFirst(entry_key, entry_value, password, inputs, nonce) ==
    /\ opened
    /\ LET call == [Call("create") EXCEPT !.hasKey = TRUE, !.key = entry_key,
                                          !.arg = entry_value]
       IN  IF DictGet(contents, entry_key) # None
           THEN /\ last' = Raise(call, "EntryExistsError", entry_key)
                /\ UNCHANGED <<file, contents>>
           ELSE LET value == IF entry_value = None
                             THEN ReadEntryValue(password, inputs)
                             ELSE entry_value.items
                    new == DictSetItem(contents, entry_key, value)
                IN  /\ contents' = new
                    /\ file' = Persist(contents, nonce)
                    /\ last' = [call EXCEPT !.value = value, !.wrote = TRUE]
    /\ UNCHANGED <<opened, box, central, shown, window, second>>

Create(entry_key, entry_value, password, inputs, nonce) ==
    /\ opened
    /\ LET call == [Call("create") EXCEPT !.hasKey = TRUE, !.key = entry_key,
                                          !.arg = entry_value]
       IN  IF DictGet(contents, entry_key) # None
           THEN /\ last' = Raise(call, "EntryExistsError", entry_key)
                /\ UNCHANGED <<file, contents>>
           ELSE LET value == IF entry_value = None
                             THEN ReadEntryValue(password, inputs)
                             ELSE entry_value.items
                    new == DictSetItem(contents, entry_key, value)
                IN  /\ contents' = new
                    /\ file' = Persist(new, nonce)
                    /\ last' = [call EXCEPT !.value = value, !.wrote = TRUE]
    /\ UNCHANGED <<opened, box, central, shown, window, second>>

\* Mutant: a named read returns self.contents
ReadReturnsAll(hasKey, entry_key) ==
    /\ opened
    /\ LET call == [Call("read") EXCEPT !.hasKey = hasKey, !.key = entry_key]
       IN  IF ~hasKey
           THEN last' = [call EXCEPT !.ret = contents]
           ELSE IF DictGet(contents, entry_key) = None
                THEN last' = Raise(call, "EntryDoesNotExistError", entry_key)
                ELSE last' = [call EXCEPT !.ret = contents]
    /\ UNCHANGED <<file, opened, box, contents, central, shown, window, second>>

Read(hasKey, entry_key) ==
    /\ opened
    /\ LET call == [Call("read") EXCEPT !.hasKey = hasKey, !.key = entry_key]
       IN  IF ~hasKey
           THEN last' = [call EXCEPT !.ret = contents]
           ELSE IF DictGet(contents, entry_key) = None
                THEN last' = Raise(call, "EntryDoesNotExistError", entry_key)
                ELSE last' = [call EXCEPT
                                !.ret = <<<<entry_key,
                                            DictGetItem(contents, entry_key)>>>>]
    /\ UNCHANGED <<file, opened, box, contents, central, shown, window, second>>

\* Mutant: the new fields are merged into the old value (dict.update)
UpdateMerges(entry_key, entry_value, password, inputs, nonce) ==
    /\ opened
    /\ LET call == [Call("update") EXCEPT !.hasKey = TRUE, !.key = entry_key,
                                          !.arg = entry_value]
       IN  IF DictGet(contents, entry_key) = None
           THEN /\ last' = Raise(call, "EntryDoesNotExistError", entry_key)
                /\ UNCHANGED <<file, contents>>
           ELSE LET value == IF entry_value = None
                             THEN ReadEntryValue(password, inputs)
                             ELSE entry_value.items
                    new == DictSetItem(contents, entry_key,
                               DictUpdate(DictGetItem(contents, entry_key),
                                          value))
                IN  /\ contents' = new
                    /\ file' = Persist(new, nonce)
                    /\ last' = [call EXCEPT !.value = value, !.wrote = TRUE]
    /\ UNCHANGED <<opened, box, central, shown, window, second>>

Update(entry_key, entry_value, password, inputs, nonce) ==
    /\ opened
    /\ LET call == [Call("update") EXCEPT !.hasKey = TRUE, !.key = entry_key,
                                          !.arg = entry_value]
       IN  IF DictGet(contents, entry_key) = None
           THEN /\ last' = Raise(call, "EntryDoesNotExistError", entry_key)
                /\ UNCHANGED <<file, contents>>
           ELSE LET value == IF entry_value = None
                             THEN ReadEntryValue(password, inputs)
                             ELSE entry_value.items
                    new == DictSetItem(contents, entry_key, value)
                IN  /\ contents' = new
                    /\ file' = Persist(new, nonce)
                    /\ last' = [call EXCEPT !.value = value, !.wrote = TRUE]
    /\ UNCHANGED <<opened, box, central, shown, window, second>>

\* Mutant: the reply is read and not looked at
DeleteIgnoresReply(entry_key, interactive, answer, nonce) ==
    /\ opened
    /\ LET call == [Call("delete") EXCEPT !.hasKey = TRUE, !.key = entry_key,
                                          !.interactive = interactive]
       IN  IF DictGet(contents, entry_key) = None
           THEN /\ last' = Raise(call, "EntryDoesNotExistError", entry_key)
                /\ UNCHANGED <<file, contents>>
           ELSE LET reply == IF interactive THEN answer ELSE "y"
                    asked == [call EXCEPT !.asked = interactive,
                                          !.reply = reply]
                    new == DictDelItem(contents, entry_key)
                IN  /\ contents' = new
                    /\ file' = Persist(new, nonce)
                    /\ last' = [asked EXCEPT !.wrote = TRUE]
    /\ UNCHANGED <<opened, box, central, shown, window, second>>

\* Mutant: the confirmation is asked before the existence test
DeleteAsksFirst(entry_key, interactive, answer, nonce) ==
    /\ opened
    /\ LET reply == IF interactive THEN answer ELSE "y"
           call == [Call("delete") EXCEPT !.hasKey = TRUE, !.key = entry_key,
                                          !.interactive = interactive,
                                          !.asked = interactive,
                                          !.reply = reply]
           new == DictDelItem(contents, entry_key)
       IN  IF DictGet(contents, entry_key) = None
           THEN /\ last' = Raise(call, "EntryDoesNotExistError", entry_key)
                /\ UNCHANGED <<file, contents>>
           ELSE IF Lower(reply) \in {"yes", "y"}
                THEN /\ contents' = new
                     /\ file' = Persist(new, nonce)
                     /\ last' = [call EXCEPT !.wrote = TRUE]
                ELSE /\ last' = call
                     /\ UNCHANGED <<file, contents>>
    /\ UNCHANGED <<opened, box, central, shown, window, second>>

\* Mutant: the entry is deleted in memory and the file is not rewritten
DeleteSkipsWrite(entry_key, interactive, answer, nonce) ==
    /\ opened
    /\ LET call == [Call("delete") EXCEPT !.hasKey = TRUE, !.key = entry_key,
                                          !.interactive = interactive]
       IN  IF DictGet(contents, entry_key) = None
           THEN /\ last' = Raise(call, "EntryDoesNotExistError", entry_key)
                /\ UNCHANGED <<file, contents>>
           ELSE LET reply == IF interactive THEN answer ELSE "y"
                    asked == [call EXCEPT !.asked = interactive,
                                          !.reply = reply]
                IN  IF Lower(reply) \in {"yes", "y"}
                    THEN /\ contents' = DictDelItem(contents, entry_key)
                         /\ last' = asked
                         /\ UNCHANGED file
                    ELSE /\ last' = asked
                         /\ UNCHANGED <<file, contents>>
    /\ UNCHANGED <<opened, box, central, shown, window, second>>

Delete(entry_key, interactive, answer, nonce) ==
    /\ opened
    /\ LET call == [Call("delete") EXCEPT !.hasKey = TRUE, !.key = entry_key,
                                          !.interactive = interactive]
       IN  IF DictGet(contents, entry_key) = None
           THEN /\ last' = Raise(call, "EntryDoesNotExistError", entry_key)
                /\ UNCHANGED <<file, contents>>
           ELSE LET reply == IF interactive THEN answer ELSE "y"
                    asked == [call EXCEPT !.asked = interactive,
                                          !.reply = reply]
                    new == DictDelItem(contents, entry_key)
                IN  IF Lower(reply) \in {"yes", "y"}
                    THEN /\ contents' = new
                         /\ file' = Persist(new, nonce)
                         /\ last' = [asked EXCEPT !.wrote = TRUE]
                    ELSE /\ last' = asked
                         /\ UNCHANGED <<file, contents>>
    /\ UNCHANGED <<opened, box, central, shown, window, second>>

----------------------------------------------------------------------------
(* The environment of a store: the process ends, a test removes the file *)

Exit ==
    /\ opened
    /\ opened' = FALSE
    /\ box' = <<>>
    /\ contents' = <<>>
    /\ central' = FALSE
    /\ shown' = {}
    /\ window' = NoWindow
    /\ last' = Call("exit")
    /\ UNCHANGED <<file, second>>

TearDown ==
    /\ file.exists
    /\ file' = NoFile
    /\ opened' = FALSE
    /\ box' = <<>>
    /\ contents' = <<>>
    /\ central' = FALSE
    /\ shown' = {}
    /\ window' = NoWindow
    /\ last' = Call("tearDown")
    /\ UNCHANGED second

----------------------------------------------------------------------------
(* CentralWidget of lock.py: its self.contents is the dict read() returned *)

CentralWidgetInit ==
    /\ opened
    /\ ~central
    /\ central' = TRUE
    /\ shown' = DictKeys(contents)
    /\ last' = [Call("CentralWidget") EXCEPT !.ret = contents]
    /\ UNCHANGED <<file, opened, box, contents, window, second>>

CreateNewEntry(title) ==
    /\ central
    /\ LET call == [Call("create_new_entry") EXCEPT !.hasKey = TRUE,
                                                    !.key = title]
       IN  IF title = "" \/ DictHas(contents, title)
           THEN /\ last' = [call EXCEPT !.outcome = "rejected"]
                /\ UNCHANGED <<contents, shown>>
           ELSE /\ contents' = DictSetItem(contents, title,
                                           << <<"Password", "">> >>)
                /\ shown' = shown \cup {title}
                /\ last' = call
    /\ UNCHANGED <<file, opened, box, central, window, second>>

\* Mutant: a pair is kept when its name is filled in, whatever its description
RECURSIVE CollectNamed(_, _)
CollectNamed(line_edits, result) ==
    IF line_edits = <<>> THEN result
    ELSE LET name == Head(line_edits)[1]
             description == Head(line_edits)[2]
         IN  CollectNamed(Tail(line_edits),
                          IF name # ""
                          THEN DictSetItem(result, name, description)
                          ELSE result)

\* the loop of save over the line edits of a group box, two by two
RECURSIVE Collect(_, _)
Collect(line_edits, result) ==
    IF line_edits = <<>> THEN result
    ELSE LET name == Head(line_edits)[1]
             description == Head(line_edits)[2]
         IN  Collect(Tail(line_edits),
                     IF name # "" /\ description # ""
                     THEN DictSetItem(result, name, description)
                     ELSE result)

\* save(group_box): line_edits is what the group box titled title holds
CentralWidgetSave(title, line_edits, nonce) ==
    /\ central
    /\ title \in shown
    /\ LET result == Collect(line_edits, <<>>)
           call == [Call("save") EXCEPT !.hasKey = TRUE, !.key = title,
                                        !.arg = Dict(line_edits),
                                        !.value = result]
           new == DictSetItem(contents, title, result)
       IN  IF ~DictHas(result, "Password")
           THEN /\ last' = [call EXCEPT !.cmd = "return"]
                /\ UNCHANGED <<file, contents>>
           ELSE /\ contents' = new
                /\ file' = Persist(new, nonce)
                /\ last' = [call EXCEPT
                              !.wrote = TRUE,
                              !.cmd = IF DictGet(contents, title) # None
                                      THEN "update" ELSE "create"]
    /\ UNCHANGED <<opened, box, central, shown, window, second>>

\* delete(group_box): pm.delete(title, interactive=False), group_box.hide()
CentralWidgetDelete(title, nonce) ==
    /\ central
    /\ title \in shown
    /\ LET call == [Call("gui_delete") EXCEPT !.hasKey = TRUE, !.key = title]
           new == DictDelItem(contents, title)
       IN  IF DictGet(contents, title) = None
           THEN /\ last' = Raise(call, "EntryDoesNotExistError", title)
                /\ UNCHANGED <<file, contents, shown>>
           ELSE /\ contents' = new
                /\ file' = Persist(new, nonce)
                /\ shown' = shown \ {title}
                /\ last' = [call EXCEPT !.wrote = TRUE]
    /\ UNCHANGED <<opened, box, central, window, second>>

----------------------------------------------------------------------------
(* widgets.py: Entry, FieldPair, ScrollArea, CentralWidget, MainWindow.
   An Optional[str] is <<>> for None and <<s>> for the string s.  The
   PasswordManager of widgets.py is used as a mapping: pm[name] = value,
   del pm[name], name in pm. *)

\* "text if text else None"
OrNone(text) == IF text = "" THEN <<>> ELSE <<text>>

\* FieldPair.__init__: the two line edits and what was saved of them
FieldPair(name, definition, password) ==
    [name |-> name, definition |-> definition,
     saved_name |-> OrNone(name), saved_definition |-> OrNone(definition),
     password |-> password]

FieldPairSaved(field_pair) ==
    IF field_pair.saved_name = <<>> \/ field_pair.saved_definition = <<>>
    THEN FALSE
    ELSE IF field_pair.saved_name # <<field_pair.name>> THEN FALSE
    ELSE IF field_pair.saved_definition # <<field_pair.definition>> THEN FALSE
    ELSE TRUE

\* create_entry(entry_name, entry_value)
CreateEntryWidget(entry_name, entry_value) ==
    [title |-> entry_name,
     saved_field_pair_removed |-> FALSE,
     field_pairs |-> [i \in DOMAIN entry_value |->
                         FieldPair(entry_value[i][1], entry_value[i][2],
                                   entry_value[i][1] = "Password")]]

EntrySaved(entry) ==
    IF entry.saved_field_pair_removed THEN FALSE
    ELSE \A i \in DOMAIN entry.field_pairs :
             FieldPairSaved(entry.field_pairs[i])

ScrollAreaSaved(w) ==
    IF w.saved_entry_removed THEN FALSE
    ELSE \A i \in DOMAIN w.entries : EntrySaved(w.entries[i])

\* str.isalnum on the entry names typed
IsAlnum(text) == text \in {"Google", "Microsoft", "1234", "5678"}

\* pm[name] = value: the entry is created, or its value replaced entirely
PmSetItem(db, name, value) == DictSetItem(db, name, value)
\* name in pm
PmContains(db, name) == DictHas(db, name)
\* del pm[name], KeyError caught by the caller when the name is not stored
PmDelItem(db, name) == IF DictHas(db, name) THEN DictDelItem(db, name) ELSE db

\* the loop of save over the field pairs of an entry
RECURSIVE SaveResult(_, _)
SaveResult(field_pairs, result) ==
    IF field_pairs = <<>> THEN result
    ELSE LET field_pair == Head(field_pairs)
         IN  SaveResult(Tail(field_pairs),
                        IF field_pair.name # "" /\ field_pair.definition # ""
                        THEN DictSetItem(result, field_pair.name,
                                         field_pair.definition)
                        ELSE result)

\* save(entry) on the store db: whether it saved, the entry and the store after
SaveEntry(entry, db) ==
    LET is_empty == \E i \in DOMAIN entry.field_pairs :
                        \/ entry.field_pairs[i].name = ""
                        \/ entry.field_pairs[i].definition = ""
    IN  IF is_empty THEN [ok |-> FALSE, entry |-> entry, db |-> db]
        ELSE [ok |-> TRUE,
              entry |-> [entry EXCEPT
                           !.saved_field_pair_removed = FALSE,
                           !.field_pairs =
                               [i \in DOMAIN entry.field_pairs |->
                                   [entry.field_pairs[i] EXCEPT
                                       !.saved_name =
                                           <<entry.field_pairs[i].name>>,
                                       !.saved_definition =
                                           <<entry.field_pairs[i].definition>>]]],
              db |-> PmSetItem(db, entry.title,
                               SaveResult(entry.field_pairs, <<>>))]

\* the first loop of save_all: del pm[entry_name] for every queued name
RECURSIVE DeleteQueued(_, _)
DeleteQueued(to_delete, db) ==
    IF to_delete = <<>> THEN db
    ELSE DeleteQueued(Tail(to_delete), PmDelItem(db, Head(to_delete)))

\* the second loop of save_all over the entries from index i on
RECURSIVE SaveEntries(_, _, _)
SaveEntries(entries, i, run) ==
    IF i > Len(entries) THEN run
    ELSE LET saved == SaveEntry(entries[i], run.db)
         IN  SaveEntries(entries, i + 1,
                         [is_saved |-> run.is_saved /\ saved.ok,
                          wrote |-> run.wrote \/ saved.ok,
                          entries |-> Append(run.entries, saved.entry),
                          db |-> saved.db])

\* MainWindow(pm): the CentralWidget shows an Entry for every stored entry
MainWindowInit ==
    /\ opened
    /\ ~window.open
    /\ window' = [open |-> TRUE,
                  entries |-> [i \in DOMAIN contents |->
                                  CreateEntryWidget(contents[i][1],
                                                    contents[i][2])],
                  to_delete |-> <<>>,
                  saved_entry_removed |-> FALSE]
    /\ last' = Call("MainWindow")
    /\ UNCHANGED <<file, opened, box, contents, central, shown, second>>

EntryTitles(w) == {w.entries[i].title : i \in DOMAIN w.entries}

WidgetsCreateNewEntry(entry_name) ==
    /\ window.open
    /\ LET call == [Call("create_new_entry") EXCEPT !.hasKey = TRUE,
                                                    !.key = entry_name]
       IN  IF \/ entry_name = ""
              \/ ~IsAlnum(entry_name)
              \/ entry_name \in EntryTitles(window)
           THEN /\ last' = [call EXCEPT !.outcome = "rejected"]
                /\ UNCHANGED window
           ELSE /\ window' =
                       [window EXCEPT !.entries =
                           Append(@, CreateEntryWidget(
                                         entry_name,
                                         << <<"Password", "">> >>))]
                /\ last' = call
    /\ UNCHANGED <<file, opened, box, contents, central, shown, second>>

\* the user types into the name or the definition line edit of a field pair
TypeName(e, p, text) ==
    /\ window.open
    /\ e \in DOMAIN window.entries
    /\ p \in DOMAIN window.entries[e].field_pairs
    /\ ~window.entries[e].field_pairs[p].password
    /\ window' = [window EXCEPT !.entries[e].field_pairs[p].name = text]
    /\ last' = [Call("type") EXCEPT !.hasKey = TRUE,
                                    !.key = window.entries[e].title]
    /\ UNCHANGED <<file, opened, box, contents, central, shown, second>>

TypeDefinition(e, p, text) ==
    /\ window.open
    /\ e \in DOMAIN window.entries
    /\ p \in DOMAIN window.entries[e].field_pairs
    /\ window' = [window EXCEPT !.entries[e].field_pairs[p].definition = text]
    /\ last' = [Call("type") EXCEPT !.hasKey = TRUE,
                                    !.key = window.entries[e].title]
    /\ UNCHANGED <<file, opened, box, contents, central, shown, second>>

\* plus(field_pairs_layout): an empty field pair is added to entry e
Plus(e) ==
    /\ window.open
    /\ e \in DOMAIN window.entries
    /\ Len(window.entries[e].field_pairs) < MaxFieldPairs
    /\ window' = [window EXCEPT !.entries[e].field_pairs =
                                    Append(@, FieldPair("", "", FALSE))]
    /\ last' = [Call("plus") EXCEPT !.hasKey = TRUE,
                                    !.key = window.entries[e].title]
    /\ UNCHANGED <<file, opened, box, contents, central, shown, second>>

RemoveAt(seq, i) == SubSeq(seq, 1, i - 1) \o SubSeq(seq, i + 1, Len(seq))

\* FieldPair.minus: only a field pair that is not the password has the button
Minus(e, p) ==
    /\ window.open
    /\ e \in DOMAIN window.entries
    /\ p \in DOMAIN window.entries[e].field_pairs
    /\ ~window.entries[e].field_pairs[p].password
    /\ LET field_pair == window.entries[e].field_pairs[p]
           was_saved == /\ field_pair.saved_name # <<>>
                        /\ field_pair.saved_definition # <<>>
       IN  window' =
               [window EXCEPT
                   !.entries[e].saved_field_pair_removed =
                       IF was_saved THEN TRUE ELSE @,
                   !.entries[e].field_pairs = RemoveAt(@, p)]
    /\ last' = [Call("minus") EXCEPT !.hasKey = TRUE,
                                     !.key = window.entries[e].title]
    /\ UNCHANGED <<file, opened, box, contents, central, shown, second>>

\* save(entry) from the Save button of entry e
WidgetsSave(e, nonce) ==
    /\ window.open
    /\ e \in DOMAIN window.entries
    /\ LET saved == SaveEntry(window.entries[e], contents)
           call == [Call("save_entry") EXCEPT !.hasKey = TRUE,
                                              !.key = window.entries[e].title]
       IN  IF saved.ok
           THEN /\ window' = [window EXCEPT !.entries[e] = saved.entry]
                /\ contents' = saved.db
                /\ file' = Persist(saved.db, nonce)
                /\ last' = [call EXCEPT !.wrote = TRUE]
           ELSE /\ last' = [call EXCEPT !.outcome = "empty"]
                /\ UNCHANGED <<window, contents, file>>
    /\ UNCHANGED <<opened, box, central, shown, second>>

SaveAll(nonce) ==
    /\ window.open
    /\ LET deleted == DeleteQueued(window.to_delete, contents)
           run == SaveEntries(window.entries, 1,
                              [is_saved |-> TRUE,
                               wrote |-> deleted # contents,
                               entries |-> <<>>,
                               db |-> deleted])
           call == Call("save_all")
       IN  /\ window' = [window EXCEPT
                            !.to_delete = <<>>,
                            !.entries = run.entries,
                            !.saved_entry_removed =
                                IF run.is_saved THEN FALSE ELSE @]
           /\ contents' = run.db
           /\ file' = IF run.wrote THEN Persist(run.db, nonce) ELSE file
           /\ last' = [call EXCEPT
                         !.wrote = run.wrote,
                         !.outcome = IF run.is_saved THEN "ok" ELSE "empty"]
    /\ UNCHANGED <<opened, box, central, shown, second>>

RemoveEntry(e) ==
    /\ window.open
    /\ e \in DOMAIN window.entries
    /\ Len(window.to_delete) < MaxToDelete
    /\ LET title == window.entries[e].title
       IN  /\ window' = [window EXCEPT
                            !.saved_entry_removed =
                                IF PmContains(contents, title) THEN TRUE ELSE @,
                            !.to_delete = Append(@, title),
                            !.entries = RemoveAt(@, e)]
           /\ last' = [Call("remove_entry") EXCEPT !.hasKey = TRUE,
                                                   !.key = title]
    /\ UNCHANGED <<file, opened, box, contents, central, shown, second>>

\* closeEvent: accepted is the answer to the 'Unsaved changes' dialog;
\* closing the window ends the program
CloseEvent(accepted) ==
    /\ window.open
    /\ LET saved == ScrollAreaSaved(window)
           call == [Call("closeEvent") EXCEPT
                      !.ret = window,
                      !.asked = ~saved,
                      !.reply = IF saved THEN ""
                                ELSE IF accepted THEN "accept" ELSE "reject"]
       IN  IF saved \/ accepted
           THEN /\ window' = NoWindow
                /\ opened' = FALSE
                /\ box' = <<>>
                /\ contents' = <<>>
                /\ last' = [call EXCEPT !.outcome = "closed"]
           ELSE /\ last' = [call EXCEPT !.outcome = "ignored"]
                /\ UNCHANGED <<window, opened, box, contents>>
    /\ UNCHANGED <<file, central, shown, second>>

----------------------------------------------------------------------------
(* Specifications *)

OpenStore == \E prompted \in BOOLEAN, password \in Passwords, nonce \in FreshNonces :
                 Open(prompted, password, nonce)

CreateEntry ==
    \E entry_key \in Names, nonce \in FreshNonces :
        \/ \E entry_value \in Values :
               Create(entry_key, Dict(entry_value), "", <<>>, nonce)
        \/ \E password \in TypedPasswords, inputs \in InputScripts :
               Create(entry_key, None, password, inputs, nonce)

ReadEntry ==
    \/ Read(FALSE, "")
    \/ \E entry_key \in Names : Read(TRUE, entry_key)

UpdateEntry ==
    \E entry_key \in Names, nonce \in FreshNonces :
        \/ \E entry_value \in Values :
               Update(entry_key, Dict(entry_value), "", <<>>, nonce)
        \/ \E password \in TypedPasswords, inputs \in InputScripts :
               Update(entry_key, None, password, inputs, nonce)

DeleteEntry ==
    \E entry_key \in Names, nonce \in FreshNonces :
        \/ Delete(entry_key, FALSE, "", nonce)
        \/ \E answer \in Replies : Delete(entry_key, TRUE, answer, nonce)

NewEntry == \E title \in Names : CreateNewEntry(title)

Next ==
    \/ OpenStore
    \/ CreateEntry
    \/ ReadEntry
    \/ UpdateEntry
    \/ DeleteEntry
    \/ Exit
    \/ TearDown

Spec == Init /\ [][Next]_vars

NextGui ==
    \/ Next
    \/ CentralWidgetInit
    \/ NewEntry

SpecGui == Init /\ [][NextGui]_vars

\* The GUI alone: PasswordWindow.run, then the buttons of the CentralWidget
Titles == {"", "Google", "Microsoft"}

\* name/description pairs a group box can hold when Save is pressed
LineEdits ==
    { << <<"Password", "1234">> >>,
      << <<"Password", "">> >>,
      << <<"Password", "1234">>, <<"Username", "Alice">> >>,
      << <<"Password", "1234">>, <<"Username", "">> >>,
      << <<"Password", "1234">>, <<"", "Alice">> >> }

WindowRun ==
    \E password \in TypedPasswords, nonce \in FreshNonces :
        Open(FALSE, password, nonce)

WindowCreate == \E title \in Titles : CreateNewEntry(title)

WindowSave ==
    \E title \in Titles, line_edits \in LineEdits, nonce \in FreshNonces :
        CentralWidgetSave(title, line_edits, nonce)

WindowDelete ==
    \E title \in Titles, nonce \in FreshNonces :
        CentralWidgetDelete(title, nonce)

NextWindow ==
    \/ WindowRun
    \/ CentralWidgetInit
    \/ WindowCreate
    \/ WindowSave
    \/ WindowDelete
    \/ Exit

SpecWindow == Init /\ [][NextWindow]_vars

\* The GUI of widgets.py alone
EntryNames == {"", "my bank", "Google"}
NameTexts == {"", "Password", "Username"}
DefinitionTexts == {"", "1234", "5678"}

WidgetsRun ==
    \E password \in TypedPasswords, nonce \in FreshNonces :
        Open(FALSE, password, nonce)

WidgetsNewEntry == \E entry_name \in EntryNames : WidgetsCreateNewEntry(entry_name)

WidgetsType ==
    \E e \in DOMAIN window.entries :
        \E p \in DOMAIN window.entries[e].field_pairs :
            \/ \E text \in NameTexts : TypeName(e, p, text)
            \/ \E text \in DefinitionTexts : TypeDefinition(e, p, text)

WidgetsPlus == \E e \in DOMAIN window.entries : Plus(e)

WidgetsMinus ==
    \E e \in DOMAIN window.entries :
        \E p \in DOMAIN window.entries[e].field_pairs : Minus(e, p)

WidgetsSaveEntry ==
    \E e \in DOMAIN window.entries, nonce \in FreshNonces : WidgetsSave(e, nonce)

WidgetsSaveAll == \E nonce \in FreshNonces : SaveAll(nonce)

WidgetsRemoveEntry == \E e \in DOMAIN window.entries : RemoveEntry(e)

WidgetsClose == \E accepted \in BOOLEAN : CloseEvent(accepted)

NextWidgets ==
    \/ WidgetsRun
    \/ MainWindowInit
    \/ WidgetsNewEntry
    \/ WidgetsType
    \/ WidgetsPlus
    \/ WidgetsMinus
    \/ WidgetsSaveEntry
    \/ WidgetsSaveAll
    \/ WidgetsRemoveEntry
    \/ WidgetsClose

SpecWidgets == Init /\ [][NextWidgets]_vars

----------------------------------------------------------------------------
(* Two PasswordManager objects on the same database_path.  The variables
   opened, box and contents are those of the object the next call is made on;
   second holds the other object. *)

TwoValues == { << <<"Password", "1234">> >>, << >> }

\* the next calls are made on the other object
Switch ==
    /\ opened' = second.opened
    /\ box' = second.box
    /\ contents' = second.contents
    /\ second' = [opened |-> opened, box |-> box, contents |-> contents]
    /\ last' = Call("switch")
    /\ UNCHANGED <<file, central, shown, window>>

TwoOpen ==
    \E password \in TypedPasswords, nonce \in FreshNonces :
        Open(FALSE, password, nonce)

TwoCreate ==
    \E entry_key \in Names, entry_value \in TwoValues, nonce \in FreshNonces :
        Create(entry_key, Dict(entry_value), "", <<>>, nonce)

TwoUpdate ==
    \E entry_key \in Names, entry_value \in TwoValues, nonce \in FreshNonces :
        Update(entry_key, Dict(entry_value), "", <<>>, nonce)

TwoDelete ==
    \E entry_key \in Names, nonce \in FreshNonces :
        Delete(entry_key, FALSE, "", nonce)

NextTwo ==
    \/ TwoOpen
    \/ TwoCreate
    \/ TwoUpdate
    \/ TwoDelete
    \/ Switch

SpecTwo == Init /\ [][NextTwo]_vars

----------------------------------------------------------------------------
(* main(): one run of "lock <subcommand> [entry]" from start to exit *)

Subcommands == {"create", "read", "update", "delete"}

\* Mutant: read of an entry that is absent returns normally
SubcommandReadLenient(db, cmd, hasEntry, entry_key, value, reply) ==
    LET absent == DictGet(db, entry_key) = None
        failed(exception) == [outcome |-> exception, db |-> db, wrote |-> FALSE]
        kept == [outcome |-> "ok", db |-> db, wrote |-> FALSE]
        stored(new) == [outcome |-> "ok", db |-> new, wrote |-> TRUE]
    IN  CASE cmd = "create" ->
                 IF ~absent THEN failed("EntryExistsError")
                 ELSE stored(DictSetItem(db, entry_key, value))
          [] cmd = "read" -> kept
          [] cmd = "update" ->
                 IF absent THEN failed("EntryDoesNotExistError")
                 ELSE stored(DictSetItem(db, entry_key, value))
          [] cmd = "delete" ->
                 IF absent THEN failed("EntryDoesNotExistError")
                 ELSE IF Lower(reply) \in {"yes", "y"}
                      THEN stored(DictDelItem(db, entry_key))
                      ELSE kept

\* match args.subcommand: the method called on pm, on the database db
Subcommand(db, cmd, hasEntry, entry_key, value, reply) ==
    LET absent == DictGet(db, entry_key) = None
        failed(exception) == [outcome |-> exception, db |-> db, wrote |-> FALSE]
        kept == [outcome |-> "ok", db |-> db, wrote |-> FALSE]
        stored(new) == [outcome |-> "ok", db |-> new, wrote |-> TRUE]
    IN  CASE cmd = "create" ->
                 IF ~absent THEN failed("EntryExistsError")
                 ELSE stored(DictSetItem(db, entry_key, value))
          [] cmd = "read" ->
                 IF hasEntry /\ absent THEN failed("EntryDoesNotExistError")
                 ELSE kept
          [] cmd = "update" ->
                 IF absent THEN failed("EntryDoesNotExistError")
                 ELSE stored(DictSetItem(db, entry_key, value))
          [] cmd = "delete" ->
                 IF absent THEN failed("EntryDoesNotExistError")
                 ELSE IF Lower(reply) \in {"yes", "y"}
                      THEN stored(DictDelItem(db, entry_key))
                      ELSE kept

\* password is typed at the getpass prompt; typed and inputs answer
\* read_entry_value; answer is the reply to delete's question; nonce seals a
\* new database, rewrite the database a mutation writes
Main(cmd, hasEntry, entry_key, password, typed, inputs, answer, nonce, rewrite) ==
    /\ ~opened
    /\ LET call == [Call("main") EXCEPT !.cmd = cmd, !.hasKey = hasEntry,
                                        !.key = entry_key, !.prompted = TRUE,
                                        !.password = password,
                                        !.interactive = (cmd = "delete")]
           key == Blake2b(password)
           created == FileOf(Encrypt(key, nonce, EmptyJson))
           onDisk == IF file.exists THEN file ELSE created
           plain == Decrypt(key, onDisk.data)
           value == ReadEntryValue(typed, inputs)
           run == Subcommand(Loads(plain.pt), cmd, hasEntry, entry_key, value,
                             answer)
       IN  IF password = ""
           THEN /\ last' = [Raise(call, "SystemExit", "1") EXCEPT !.code = 1]
                /\ UNCHANGED file
           ELSE IF ~plain.ok
           THEN /\ last' = [Raise(call, "CryptoError", "") EXCEPT !.code = 1]
                /\ file' = onDisk
           ELSE IF run.outcome # "ok"
           THEN /\ last' = [Raise(call, run.outcome, entry_key) EXCEPT
                              !.code = 1, !.wrote = ~file.exists]
                /\ file' = onDisk
           ELSE /\ rewrite # onDisk.data.nonce
                /\ last' = [call EXCEPT
                              !.code = 0,
                              !.wrote = run.wrote \/ ~file.exists,
                              !.ret = run.db,
                              !.value = IF cmd \in {"create", "update"}
                                        THEN value ELSE <<>>,
                              !.asked = (cmd = "delete"),
                              !.reply = IF cmd = "delete" THEN answer ELSE ""]
                /\ file' = IF run.wrote
                           THEN FileOf(Encrypt(key, rewrite, Dumps(run.db)))
                           ELSE onDisk
    /\ UNCHANGED <<opened, box, contents, central, shown, window, second>>

CliCreate ==
    \E entry_key \in Names, password \in Passwords, typed \in TypedPasswords,
       inputs \in InputScripts, nonce \in FreshNonces, rewrite \in Nonces :
        Main("create", TRUE, entry_key, password, typed, inputs, "", nonce, rewrite)

CliRead ==
    \E password \in Passwords, nonce \in FreshNonces, rewrite \in Nonces :
        \/ Main("read", FALSE, "", password, "", <<>>, "", nonce, rewrite)
        \/ \E entry_key \in Names :
               Main("read", TRUE, entry_key, password, "", <<>>, "", nonce, rewrite)

CliUpdate ==
    \E entry_key \in Names, password \in Passwords, typed \in TypedPasswords,
       inputs \in InputScripts, nonce \in FreshNonces, rewrite \in Nonces :
        Main("update", TRUE, entry_key, password, typed, inputs, "", nonce, rewrite)

CliDelete ==
    \E entry_key \in Names, password \in Passwords, answer \in Replies,
       nonce \in FreshNonces, rewrite \in Nonces :
        Main("delete", TRUE, entry_key, password, "", <<>>, answer, nonce, rewrite)

NextCli ==
    \/ CliCreate
    \/ CliRead
    \/ CliUpdate
    \/ CliDelete
    \/ TearDown

SpecCli == Init /\ [][NextCli]_vars

----------------------------------------------------------------------------
(* The entry argument is any string, the empty one included: pm.create('')
   and "lock create ''" *)

EntryArguments == {"", "Google"}

ArgOpen ==
    \E password \in TypedPasswords, nonce \in FreshNonces :
        Open(FALSE, password, nonce)

ArgCreate ==
    \E entry_key \in EntryArguments, entry_value \in Values,
       nonce \in FreshNonces :
        Create(entry_key, Dict(entry_value), "", <<>>, nonce)

ArgCliCreate ==
    \E entry_key \in EntryArguments, password \in TypedPasswords,
       typed \in TypedPasswords, inputs \in InputScripts,
       nonce \in FreshNonces, rewrite \in Nonces :
        Main("create", TRUE, entry_key, password, typed, inputs, "", nonce, rewrite)

ArgDelete ==
    \E entry_key \in EntryArguments, nonce \in FreshNonces :
        Delete(entry_key, FALSE, "", nonce)

NextArg ==
    \/ ArgOpen
    \/ ArgCreate
    \/ ArgCliCreate
    \/ ArgDelete
    \/ Exit

SpecArg == Init /\ [][NextArg]_vars

----------------------------------------------------------------------------
(* Seal and open again: encode, encrypt, decrypt, decode *)

UniqueKeys(d) == \A i, j \in DOMAIN d : d[i][1] = d[j][1] => i = j

RoundTripValues ==
    {d \in DictsOver(RoundTripFields, RoundTripTexts,
                     Cardinality(RoundTripFields)) : UniqueKeys(d)}

Databases ==
    {d \in DictsOver(RoundTripNames, RoundTripValues, MaxRoundTripEntries) :
        UniqueKeys(d)}

RoundTripInit ==
    /\ file = NoFile
    /\ opened = TRUE
    /\ box \in {Blake2b(password) : password \in Passwords}
    /\ contents \in Databases
    /\ central = FALSE
    /\ shown = {}
    /\ window = NoWindow
    /\ second = NoStore
    /\ last = Call("none")

RoundTrip(nonce) ==
    /\ LET sealed == Persist(contents, nonce)
           plain == Decrypt(box, sealed.data)
       IN  /\ file' = sealed
           /\ last' = [Call("roundtrip") EXCEPT
                         !.wrote = TRUE,
                         !.outcome = IF plain.ok THEN "ok" ELSE "CryptoError",
                         !.ret = IF plain.ok THEN Loads(plain.pt) ELSE <<>>]
    /\ UNCHANGED <<opened, box, contents, central, shown, window, second>>

NextRoundTrip == \E nonce \in FreshNonces : RoundTrip(nonce)

SpecRoundTrip == RoundTripInit /\ [][NextRoundTrip]_vars

----------------------------------------------------------------------------
(* The process dies inside "with open(database_path, 'wb') as file:
   file.write(encrypted)" *)

\* where the write stops: after open() truncated the file, after part of the
\* bytes reached the file, after all of them did
WriteStages == {"opened", "partial", "written"}

\* the first bytes of a blob: the nonce and a ciphertext cut before its end
Truncated(blob) == [blob EXCEPT !.key = <<>>, !.pt = <<>>]

CrashedFile(new, nonce, stage) ==
    CASE stage = "opened" -> FileOf(NoBlob)
      [] stage = "partial" -> FileOf(Truncated(Persist(new, nonce).data))
      [] stage = "written" -> Persist(new, nonce)

\* the database being written is new; the process and its store are gone
Crash(op, entry_key, new, nonce, stage) ==
    /\ file' = CrashedFile(new, nonce, stage)
    /\ opened' = FALSE
    /\ box' = <<>>
    /\ contents' = <<>>
    /\ central' = FALSE
    /\ shown' = {}
    /\ window' = NoWindow
    /\ last' = [Call("crash") EXCEPT !.cmd = op, !.hasKey = TRUE,
                                     !.key = entry_key, !.value = new,
                                     !.err = stage, !.outcome = "killed"]
    /\ UNCHANGED second

CrashInCreate(entry_key, entry_value, nonce, stage) ==
    /\ opened
    /\ DictGet(contents, entry_key) = None
    /\ Crash("create", entry_key,
             DictSetItem(contents, entry_key, entry_value), nonce, stage)

CrashInUpdate(entry_key, entry_value, nonce, stage) ==
    /\ opened
    /\ DictGet(contents, entry_key) # None
    /\ Crash("update", entry_key,
             DictSetItem(contents, entry_key, entry_value), nonce, stage)

CrashInDelete(entry_key, nonce, stage) ==
    /\ opened
    /\ DictGet(contents, entry_key) # None
    /\ Crash("delete", entry_key, DictDelItem(contents, entry_key), nonce, stage)

CrashingCreate ==
    \E entry_key \in Names, entry_value \in Values, nonce \in FreshNonces,
       stage \in WriteStages :
        CrashInCreate(entry_key, entry_value, nonce, stage)

CrashingUpdate ==
    \E entry_key \in Names, entry_value \in Values, nonce \in FreshNonces,
       stage \in WriteStages :
        CrashInUpdate(entry_key, entry_value, nonce, stage)

CrashingDelete ==
    \E entry_key \in Names, nonce \in FreshNonces, stage \in WriteStages :
        CrashInDelete(entry_key, nonce, stage)

NextCrash ==
    \/ Next
    \/ CrashingCreate
    \/ CrashingUpdate
    \/ CrashingDelete

SpecCrash == Init /\ [][NextCrash]_vars

----------------------------------------------------------------------------
(* helpers.password_generate and GeneratePassword.update_password.  A
   password is a sequence of characters, "" being a place not yet filled;
   every secrets.choice is a choice among all elements. *)

GENERATED_PASSWORD_LENGTH_MAX == 1024
GENERATED_PASSWORD_LENGTH_MIN == 4

\* representatives of string.ascii_lowercase, ascii_uppercase, digits, punctuation
AsciiLowercase == {"a", "z"}
AsciiUppercase == {"A"}
StringDigits == {"0", "9"}
StringPunctuation == {"!"}

Elements(seq) == {seq[i] : i \in DOMAIN seq}

\* Mutant: the chosen index stays in password_indices
PlaceKeepsIndex(runs, selected, class) ==
    IF ~selected THEN runs
    ELSE UNION {
        IF run.error \/ run.password_indices = <<>>
        THEN {[run EXCEPT !.error = TRUE]}
        ELSE {[run EXCEPT
                 !.characters = @ \cup class,
                 !.password[password_index] = character] :
                 password_index \in Elements(run.password_indices),
                 character \in class}
        : run \in runs}

\* one "if <class>:" block, applied to every way the run can have gone so
\* far; secrets.choice of an empty list raises IndexError
Place(runs, selected, class) ==
    IF ~selected THEN runs
    ELSE UNION {
        IF run.error \/ run.password_indices = <<>>
        THEN {[run EXCEPT !.error = TRUE]}
        ELSE {[run EXCEPT
                 !.characters = @ \cup class,
                 !.password[password_index] = character,
                 !.password_indices =
                     SelectSeq(@, LAMBDA i : i # password_index)] :
                 password_index \in Elements(run.password_indices),
                 character \in class}
        : run \in runs}

\* the final join: every place still empty gets a choice from characters
Join(run) ==
    LET characters == IF run.characters = {}
                      THEN AsciiLowercase \cup AsciiUppercase
                           \cup StringDigits \cup StringPunctuation
                      ELSE run.characters
    IN  {password \in [DOMAIN run.password -> characters] :
            \A i \in DOMAIN run.password :
                run.password[i] # "" => password[i] = run.password[i]}

\* every result password_generate can give: [error, password]
PasswordGenerate(length, lowercase, uppercase, digits, punctuation) ==
    LET start == {[error |-> FALSE,
                   characters |-> {},
                   password |-> [i \in 1 .. length |-> ""],
                   password_indices |-> [i \in 1 .. length |-> i]]}
        placed == Place(Place(Place(Place(start,
                      lowercase, AsciiLowercase),
                      uppercase, AsciiUppercase),
                      digits, StringDigits),
                      punctuation, StringPunctuation)
    IN  UNION {IF run.error
               THEN {[error |-> TRUE, password |-> <<>>]}
               ELSE {[error |-> FALSE, password |-> password] :
                        password \in Join(run)}
               : run \in placed}

GenerateArguments(length, lowercase, uppercase, digits, punctuation) ==
    [t |-> "password_generate", items |-> <<>>, length |-> length,
     lowercase |-> lowercase, uppercase |-> uppercase, digits |-> digits,
     punctuation |-> punctuation]

\* a direct call of password_generate
Generate(length, lowercase, uppercase, digits, punctuation) ==
    /\ \E result \in PasswordGenerate(length, lowercase, uppercase, digits,
                                       punctuation) :
           last' = [Call("password_generate") EXCEPT
                      !.arg = GenerateArguments(length, lowercase, uppercase,
                                                digits, punctuation),
                      !.outcome = IF result.error THEN "IndexError" ELSE "ok",
                      !.ret = result.password]
    /\ UNCHANGED <<file, opened, box, contents, central, shown, window, second>>

\* int(text) on the texts typed into the length line edit; <<>> is ValueError
ParseInt(text) ==
    CASE text = "3" -> <<3>>
      [] text = "4" -> <<4>>
      [] text = "1025" -> <<1025>>
      [] OTHER -> <<>>

\* update_password: text is the length line edit, the flags are the checkboxes
UpdatePassword(text, lowercase, uppercase, digits, punctuation) ==
    /\ LET parsed == ParseInt(text)
           errors ==
               \/ parsed = <<>>
               \/ parsed[1] < GENERATED_PASSWORD_LENGTH_MIN
               \/ parsed[1] > GENERATED_PASSWORD_LENGTH_MAX
               \/ ~lowercase /\ ~uppercase /\ ~digits /\ ~punctuation
           call == [Call("update_password") EXCEPT
                      !.key = text,
                      !.arg = GenerateArguments(
                                  IF parsed = <<>> THEN 0 ELSE parsed[1],
                                  lowercase, uppercase, digits, punctuation)]
       IN  IF errors
           THEN last' = [call EXCEPT !.outcome = "invalid"]
           ELSE \E result \in PasswordGenerate(parsed[1], lowercase, uppercase,
                                                digits, punctuation) :
                    last' = [call EXCEPT
                               !.cmd = "password_generate",
                               !.outcome = IF result.error THEN "IndexError"
                                           ELSE "ok",
                               !.ret = result.password]
    /\ UNCHANGED <<file, opened, box, contents, central, shown, window, second>>

LengthTexts == {"", "abc", "3", "4", "1025"}

\* the arguments of one call of password_generate, or the length line edit
\* and the checkboxes of one GeneratePassword dialog, before the call
GenerateInit ==
    /\ file = NoFile
    /\ opened = FALSE
    /\ box = <<>>
    /\ contents = <<>>
    /\ central = FALSE
    /\ shown = {}
    /\ window = NoWindow
    /\ second = NoStore
    /\ \E lowercase \in BOOLEAN, uppercase \in BOOLEAN, digits \in BOOLEAN,
          punctuation \in BOOLEAN :
           \/ \E length \in 0 .. MaxLength :
                  last = [Call("none") EXCEPT
                            !.cmd = "call",
                            !.arg = GenerateArguments(length, lowercase,
                                        uppercase, digits, punctuation)]
           \/ \E text \in LengthTexts :
                  last = [Call("none") EXCEPT
                            !.cmd = "dialog",
                            !.key = text,
                            !.arg = GenerateArguments(0, lowercase,
                                        uppercase, digits, punctuation)]

DirectGenerate ==
    /\ last.op = "none"
    /\ last.cmd = "call"
    /\ Generate(last.arg.length, last.arg.lowercase, last.arg.uppercase,
                last.arg.digits, last.arg.punctuation)

GuiGenerate ==
    /\ last.op = "none"
    /\ last.cmd = "dialog"
    /\ UpdatePassword(last.key, last.arg.lowercase, last.arg.uppercase,
                      last.arg.digits, last.arg.punctuation)

NextGenerate ==
    \/ DirectGenerate
    \/ GuiGenerate

SpecGenerate == GenerateInit /\ [][NextGenerate]_vars

----------------------------------------------------------------------------
(* Claims *)

\* what the file holds, read under the store's key
Plain == Decrypt(box, file.data)
OnDisk == Loads(Plain.pt)
Readable == file.exists /\ Plain.ok

\* the value create and update were to store
Given == IF last.arg = None THEN last.value ELSE last.arg.items

Others(db, k) == DictKeys(db) \ {k}
SameOthers(k) ==
    \A other \in Others(last.before, k) :
        /\ DictHas(contents, other)
        /\ DictGetItem(contents, other) = DictGetItem(last.before, other)

\* C1: while a store is open, after any sequence of create, read, update
\* and delete calls, failed or not, the file decrypts under the store's key
\* and decodes to self.contents.
C1_FileDecodesToContents ==
    opened => Readable /\ DbEq(OnDisk, contents)

C1_Witness ==
    /\ opened
    /\ last.op = "create"
    /\ last.outcome = "EntryExistsError"
    /\ Len(contents) = 2
    /\ \E k \in DictKeys(contents) : DictGetItem(contents, k) # <<>>

C4_CreateAbsent ==
    (last.op = "create" /\ ~DictHas(last.before, last.key)) =>
        /\ last.outcome = "ok"
        /\ DictKeys(contents) = DictKeys(last.before) \cup {last.key}
        /\ DictGetItem(contents, last.key) = Given
        /\ SameOthers(last.key)
        /\ last.wrote
        /\ Readable
        /\ DbEq(OnDisk, Append(last.before, <<last.key, Given>>))

C4_Witness ==
    /\ last.op = "create"
    /\ ~DictHas(last.before, last.key)
    /\ last.before # <<>>
    /\ last.arg # None
    /\ DictHas(contents, last.key)

\* C5: update of a name that is present replaces the value by the new one
\* (no field of the old value survives unless the new value has it), leaves
\* every other entry as it was, and the file decodes to the result.
C5_UpdatePresent ==
    (last.op = "update" /\ DictHas(last.before, last.key)) =>
        /\ last.outcome = "ok"
        /\ DictKeys(contents) = DictKeys(last.before)
        /\ DictGetItem(contents, last.key) = Given
        /\ SameOthers(last.key)
        /\ last.wrote
        /\ Readable
        /\ DbEq(OnDisk, contents)

C5_Witness ==
    /\ last.op = "update"
    /\ DictHas(last.before, last.key)
    /\ DictHas(DictGetItem(last.before, last.key), "Username")
    /\ ~DictHas(DictGetItem(contents, last.key), "Username")
    /\ Len(contents) = 2

\* C6: delete(name, interactive=False) of a name that is present removes
\* exactly that entry, leaves every other entry as it was and the file
\* decodes to the result; a delete of the same name right after it raises
\* EntryDoesNotExistError.
C6_Removed ==
    (last.op = "delete" /\ ~last.interactive
     /\ DictHas(last.before, last.key)) =>
        /\ last.outcome = "ok"
        /\ DictKeys(contents) = Others(last.before, last.key)
        /\ SameOthers(last.key)
        /\ last.wrote
        /\ Readable
        /\ DbEq(OnDisk, contents)

C6_SecondFails ==
    (/\ last.op = "delete" /\ ~last.interactive /\ last.outcome = "ok"
     /\ last'.op = "delete" /\ last'.key = last.key) =>
        last'.outcome = "EntryDoesNotExistError"

Affirmative == {"y", "Y", "yes", "Yes", "YES"}

C8_ReadIsPure ==
    (last.op = "read") =>
        /\ ~last.wrote
        /\ contents = last.before
        /\ file = last.fileBefore
        /\ ~last.hasKey => (last.outcome = "ok" /\ last.ret = contents)
        /\ (last.hasKey /\ DictHas(contents, last.key)) =>
               /\ last.outcome = "ok"
               /\ DictKeys(last.ret) = {last.key}
               /\ DictGetItem(last.ret, last.key)
                      = DictGetItem(contents, last.key)

C8_Witness ==
    /\ last.op = "read"
    /\ last.hasKey
    /\ last.outcome = "ok"
    /\ Len(contents) = 2
    /\ DictGetItem(last.ret, last.key) # <<>>

\* C9 as claimed: what the caller does to the mapping read() returned does
\* not alter self.contents (create_new_entry adds an entry to that mapping).
C9_ReadReturnsCopy ==
    (last.op = "create_new_entry") => contents = last.before

\* C10: opening a path with no file creates the file as the sealed encoding
\* of the empty database and gives a store whose database is empty; opening
\* a path with a file leaves the file as it is.
C10_Open ==
    /\ (last.op = "open" /\ ~last.fileBefore.exists
        /\ ~(last.prompted /\ last.password = "")) =>
           /\ last.outcome = "ok"
           /\ opened
           /\ Readable
           /\ Plain.pt = Dumps(<<>>)
           /\ contents = <<>>
    /\ (last.op = "open" /\ last.fileBefore.exists) =>
           file = last.fileBefore

C10_Witness ==
    /\ last.op = "open"
    /\ ~last.fileBefore.exists
    /\ file.exists
    /\ opened
    /\ last.password = "5678"

\* C11: opening an existing file with a password whose key is not the key
\* the file was sealed under raises CryptoError, gives no store and leaves
\* the file as it was; an open with the right password after it gives the
\* database the file held.
C11_Rejected ==
    (/\ last.op = "open"
     /\ last.fileBefore.exists
     /\ ~(last.prompted /\ last.password = "")
     /\ Blake2b(last.password) # last.fileBefore.data.key) =>
        /\ last.outcome = "CryptoError"
        /\ ~opened
        /\ file = last.fileBefore

C11_LaterOpen ==
    (/\ last.op = "open" /\ last.outcome = "CryptoError"
     /\ last'.op = "open" /\ last'.outcome = "ok") =>
        /\ opened'
        /\ DbEq(contents', Loads(last.fileBefore.data.pt))

C11_WrongPassword == [](C11_Rejected) /\ [][C11_LaterOpen]_vars

C11_Witness ==
    /\ last.op = "open"
    /\ last.outcome = "CryptoError"
    /\ ~opened
    /\ Len(Loads(file.data.pt)) = 2

\* C12 as claimed: an open with an empty password fails with the
\* empty-password exit on every path, prompted or passed as an argument; it
\* creates no file and gives no store.
C12_EmptyPasswordRejected ==
    (last.op = "open" /\ last.password = "") =>
        /\ last.outcome = "SystemExit"
        /\ ~opened
        /\ file = last.fileBefore

\* C13: a store that is dropped after any sequence of calls and opened again
\* on the same path with the same password has a database equal to the one
\* the first store had; this holds as well when the first store made no call
\* at all (two opens in a row).
C13_Reopen ==
    (/\ last.op = "exit"
     /\ last'.op = "open" /\ last'.outcome = "ok") =>
        /\ opened'
        /\ box' = last.fileBefore.data.key
        /\ DbEq(contents', last.before)

C13_ReopenIsIdempotent == [][C13_Reopen]_vars

C13_Witness ==
    /\ last.op = "open"
    /\ last.outcome = "ok"
    /\ last.fileBefore.exists
    /\ Len(contents) = 2
    /\ contents[1][1] = "Google"
    /\ DictHas(contents[2][2], "Username")

\* C14: for every database D and password P, sealing the encoding of D under
\* the key of P, opening the blob under that key and decoding the plaintext
\* gives D back.
C14_RoundTrip ==
    (last.op = "roundtrip") =>
        /\ last.outcome = "ok"
        /\ DbEq(last.ret, contents)

C14_Witness ==
    /\ last.op = "roundtrip"
    /\ Len(contents) = 2
    /\ contents[1][1] = "Microsoft"
    /\ contents[2][1] = ""
    /\ Len(contents[1][2]) = 2
    /\ contents[1][2][1][1] = "Username"
    /\ last.ret # contents

\* C15: after a crash at any point of the write of a create, update or
\* delete, the file holds the complete previous blob or a complete blob of
\* the new database, never an empty, truncated or undecryptable one.
C15_AtomicWrite ==
    (last.op = "crash") =>
        \/ file = last.fileBefore
        \/ /\ file.exists
           /\ Decrypt(last.fileBefore.data.key, file.data).ok
           /\ DbEq(Loads(file.data.pt), last.value)

\* C16: two stores on one file do not coordinate.  Each write leaves in the
\* file exactly the database of the store that made it; opening loads the
\* file's database and any other call that does not write changes neither the
\* file nor the database of either store; so the
\* file holds the database of the store that wrote last, and an entry one
\* store persisted can be gone after the other store's next mutation.
C16_FileIsWriters ==
    last.wrote => /\ Readable
                  /\ DbEq(OnDisk, contents)

C16_OnlyWritesChange ==
    /\ (last'.op = "switch") =>
           /\ file' = file
           /\ contents' = second.contents
           /\ second'.contents = contents
    /\ (last'.op \notin {"switch", "open"} /\ ~last'.wrote) =>
           /\ file' = file
           /\ contents' = contents
    /\ (last'.op # "switch") => second' = second
    /\ (last'.op = "open" /\ last'.fileBefore.exists) =>
           /\ file' = file
           /\ DbEq(contents', Loads(file.data.pt))

C16_LastWriteWins == [](C16_FileIsWriters) /\ [][C16_OnlyWritesChange]_vars

\* the second store holds and had persisted an entry that the first store's
\* create has just removed from the file
C16_Witness ==
    /\ last.op = "create"
    /\ last.wrote
    /\ second.opened
    /\ \E name \in Names :
           /\ DictHas(second.contents, name)
           /\ DictHas(Loads(last.fileBefore.data.pt), name)
           /\ ~DictHas(OnDisk, name)
           /\ ~DictHas(contents, name)

\* C17: a CLI run of create, read, update or delete exits with code 1 when
\* the passphrase is empty, when the database does not decrypt, when create
\* names an existing entry and when read, update or delete names an absent
\* entry; otherwise the operation succeeds and the run exits with code 0.
C17_Failure ==
    LET stored == IF last.fileBefore.exists
                  THEN Loads(last.fileBefore.data.pt) ELSE <<>>
        present == last.hasKey /\ DictHas(stored, last.key)
    IN  \/ last.password = ""
        \/ /\ last.fileBefore.exists
           /\ last.fileBefore.data.key # Blake2b(last.password)
        \/ last.cmd = "create" /\ present
        \/ last.cmd \in {"update", "delete"} /\ ~present
        \/ last.cmd = "read" /\ last.hasKey /\ ~present

C17_ExitCodes ==
    (last.op = "main") =>
        /\ last.cmd \in Subcommands
        /\ last.code = (IF C17_Failure THEN 1 ELSE 0)
        /\ (last.code = 0) <=> (last.outcome = "ok")

C17_Witness ==
    /\ last.op = "main"
    /\ last.cmd = "read"
    /\ last.key = "Microsoft"
    /\ last.code = 1
    /\ last.outcome = "EntryDoesNotExistError"
    /\ DictHas(Loads(file.data.pt), "Google")

\* C18: the plaintext every mutation writes is the canonical encoding of the
\* database: entries in ascending order of name, fields in ascending order
\* of name, only the separators "," and ":" with no whitespace; it is the
\* same for any insertion order of the same mapping, and Google with
\* Username Alice and Password 1234 is written as
\* {"Google":{"Password":"1234","Username":"Alice"}}.
C18_Ascending(d) ==
    \A i, j \in DOMAIN d : i < j => StrRank(d[i][1]) < StrRank(d[j][1])

C18_Reversed(d) == [i \in DOMAIN d |-> d[Len(d) + 1 - i]]

C18_OtherOrder(db) ==
    C18_Reversed([i \in DOMAIN db |-> <<db[i][1], C18_Reversed(db[i][2])>>])

C18_TestDatabase ==
    << <<"Google", << <<"Username", "Alice">>, <<"Password", "1234">> >> >> >>

C18_TestExpected ==
    <<LBrace, Str("Google"), Colon,
        LBrace, Str("Password"), Colon, Str("1234"), Comma,
                Str("Username"), Colon, Str("Alice"), RBrace,
      RBrace>>

C18_CanonicalPlaintext ==
    (last.op \in {"create", "update", "delete"} /\ last.wrote) =>
        /\ Readable
        /\ \A i \in DOMAIN Plain.pt :
               \/ Plain.pt[i] \in {LBrace, RBrace, Colon, Comma}
               \/ Plain.pt[i][1] = "str"
        /\ DbEq(OnDisk, contents)
        /\ C18_Ascending(OnDisk)
        /\ \A i \in DOMAIN OnDisk : C18_Ascending(OnDisk[i][2])
        /\ Dumps(C18_OtherOrder(contents)) = Plain.pt
        /\ DbEq(contents, C18_TestDatabase) => Plain.pt = C18_TestExpected

C18_Witness ==
    /\ last.op = "create"
    /\ last.wrote
    /\ Len(contents) = 2
    /\ contents[1][1] = "Microsoft"
    /\ contents[2] = <<"Google", C18_TestDatabase[1][2]>>
    /\ OnDisk[1][1] = "Google"
    /\ OnDisk[1][2][1][1] = "Password"

\* C19: in no reachable state does the database, in memory or in the file,
\* hold an entry whose name is the empty string.
C19_NonEmptyNames ==
    /\ ~DictHas(contents, "")
    /\ file.exists => ~DictHas(Loads(file.data.pt), "")

\* C20: called directly, create of an existing name and read, update and
\* delete of an absent name raise SystemExit, and after the failed create
\* the file still decrypts to the database as it was before the call.
C20_SystemExit ==
    LET present == DictHas(last.before, last.key)
    IN  /\ (last.op = "create" /\ present) =>
               /\ last.outcome = "SystemExit"
               /\ Readable
               /\ DbEq(OnDisk, last.before)
        /\ (last.op \in {"update", "delete"} /\ ~present) =>
               last.outcome = "SystemExit"
        /\ (last.op = "read" /\ last.hasKey /\ ~present) =>
               last.outcome = "SystemExit"

\* C21: an interactive delete asks only when the name is present.  A reply
\* that is not 'yes' or 'y' in any letter case makes delete return normally
\* with the database and the file as they were; with such a reply the
\* outcome is that of the non-interactive delete: the entry is gone from the
\* database, the others are kept and the file decodes to the result.
C21_InteractiveDelete ==
    (last.op = "delete" /\ last.interactive) =>
        /\ last.asked <=> DictHas(last.before, last.key)
        /\ (last.asked /\ last.reply \notin Affirmative) =>
               /\ last.outcome = "ok"
               /\ ~last.wrote
               /\ contents = last.before
               /\ file = last.fileBefore
        /\ (last.asked /\ last.reply \in Affirmative) =>
               /\ last.outcome = "ok"
               /\ last.wrote
               /\ contents = DictDelItem(last.before, last.key)
               /\ Readable
               /\ DbEq(OnDisk, contents)

C21_Witness ==
    /\ last.op = "delete"
    /\ last.interactive
    /\ last.asked
    /\ last.reply = "n"
    /\ Len(contents) = 2
    /\ DictHas(contents, last.key)
    /\ file.exists

\* C22: in the GUI of lock.py the decrypted file holds only entries that
\* were saved with a non-empty Password field and not deleted since; an
\* entry added with Create and never saved is not in the file.  A save
\* stores only non-empty descriptions, so no entry in the file has an empty
\* Password.
C22_OnlySavedOnDisk ==
    file.exists =>
        \A i \in DOMAIN Loads(file.data.pt) :
            LET value == Loads(file.data.pt)[i][2]
            IN  /\ DictHas(value, "Password")
                /\ DictGetItem(value, "Password") # ""

\* C23: Save collects exactly the pairs whose name and description are both
\* non-empty (a later pair of the same name replacing an earlier one).
\* Without a Password among them nothing is stored and the file is
\* unchanged.  Otherwise the entry is updated when the store has it and
\* created when it has not, no error escapes, the stored value of the entry
\* is the collected value, the other entries are kept and the file decodes
\* to the database.
C23_Filled ==
    {i \in DOMAIN last.arg.items :
        last.arg.items[i][1] # "" /\ last.arg.items[i][2] # ""}

C23_Collected ==
    /\ DictKeys(last.value) = {last.arg.items[i][1] : i \in C23_Filled}
    /\ \A i \in C23_Filled :
           \/ \E j \in C23_Filled :
                  j > i /\ last.arg.items[j][1] = last.arg.items[i][1]
           \/ DictGetItem(last.value, last.arg.items[i][1])
                  = last.arg.items[i][2]

C23_SaveIsUpsert ==
    (last.op = "save") =>
        /\ last.outcome = "ok"
        /\ C23_Collected
        /\ ~DictHas(last.value, "Password") =>
               /\ last.cmd = "return"
               /\ ~last.wrote
               /\ file = last.fileBefore
               /\ contents = last.before
        /\ DictHas(last.value, "Password") =>
               /\ last.cmd = (IF DictHas(last.before, last.key)
                              THEN "update" ELSE "create")
               /\ DictHas(contents, last.key)
               /\ DictGetItem(contents, last.key) = last.value
               /\ SameOthers(last.key)
               /\ Readable
               /\ DbEq(OnDisk, contents)

C23_Witness ==
    /\ last.op = "save"
    /\ last.wrote
    /\ last.key = "Microsoft"
    /\ Len(last.arg.items) = 2
    /\ last.arg.items[2] = <<"Username", "">>
    /\ last.value = << <<"Password", "1234">> >>
    /\ DictGetItem(last.before, "Microsoft") = << <<"Password", "">> >>
    /\ DictHas(contents, "Google")

\* what an entry shows: its name/definition pairs
C24_Displayed(entry) ==
    {<<entry.field_pairs[i].name, entry.field_pairs[i].definition>> :
        i \in DOMAIN entry.field_pairs}

C24_Stored(value) == {<<value[i][1], value[i][2]>> : i \in DOMAIN value}

\* C24: in the widgets GUI, whenever scroll_area.saved() holds every
\* displayed entry and field pair is stored as displayed and no entry
\* removed from the display is still stored; the window closes without the
\* dialog only when saved() holds, and when it does not hold it closes only
\* if the dialog is accepted and stays open otherwise.
C24_SavedMeansStored ==
    /\ (window.open /\ ScrollAreaSaved(window)) =>
           /\ \A i \in DOMAIN window.entries :
                  /\ DictHas(contents, window.entries[i].title)
                  /\ C24_Displayed(window.entries[i]) \subseteq
                         C24_Stored(DictGetItem(contents,
                                                window.entries[i].title))
           /\ DictKeys(contents) \subseteq EntryTitles(window)
    /\ (last.op = "closeEvent") =>
           /\ ~last.asked => (ScrollAreaSaved(last.ret) /\ ~window.open)
           /\ ~ScrollAreaSaved(last.ret) =>
                  /\ last.asked
                  /\ window.open <=> (last.reply # "accept")

\* C25: remove_entry leaves the store alone and queues the name; after a
\* save_all in which every save succeeded the queue is empty, the stored
\* names are the displayed titles, every stored value is what its entry
\* displays and the 'saved entry removed' flag is cleared; an entry with an
\* empty field is not written.
C25_SaveAll ==
    /\ (last.op = "remove_entry") =>
           /\ contents = last.before
           /\ file = last.fileBefore
           /\ \E i \in DOMAIN window.to_delete : window.to_delete[i] = last.key
    /\ (last.op = "save_all") => window.to_delete = <<>>
    /\ (last.op = "save_all" /\ last.outcome = "ok") =>
           /\ DictKeys(contents) = EntryTitles(window)
           /\ \A i \in DOMAIN window.entries :
                  C24_Stored(DictGetItem(contents, window.entries[i].title))
                      = C24_Displayed(window.entries[i])
           /\ ~window.saved_entry_removed
    /\ (last.op \in {"save_all", "save_entry"}) =>
           \A i \in DOMAIN window.entries :
               (\E p \in DOMAIN window.entries[i].field_pairs :
                    \/ window.entries[i].field_pairs[p].name = ""
                    \/ window.entries[i].field_pairs[p].definition = "") =>
                   \/ /\ DictHas(contents, window.entries[i].title)
                      /\ DictHas(last.before, window.entries[i].title)
                      /\ DictGetItem(contents, window.entries[i].title)
                             = DictGetItem(last.before, window.entries[i].title)
                   \/ ~DictHas(contents, window.entries[i].title)

\* C26: with a length of at least the number of selected classes
\* password_generate returns without error a password of exactly that
\* length whose characters all come from the selected classes (from all
\* four when none is selected) and that has a character of every selected
\* class; update_password calls it only with a length from 4 to 1024 and
\* at least one class selected.
C26_Classes ==
    << <<last.arg.lowercase, AsciiLowercase>>,
       <<last.arg.uppercase, AsciiUppercase>>,
       <<last.arg.digits, StringDigits>>,
       <<last.arg.punctuation, StringPunctuation>> >>

C26_Selected == {i \in DOMAIN C26_Classes : C26_Classes[i][1]}

C26_Allowed ==
    UNION {C26_Classes[i][2] :
              i \in (IF C26_Selected = {} THEN DOMAIN C26_Classes
                     ELSE C26_Selected)}

C26_Generated ==
    /\ last.outcome = "ok"
    /\ Len(last.ret) = last.arg.length
    /\ \A i \in DOMAIN last.ret : last.ret[i] \in C26_Allowed
    /\ \A c \in C26_Selected :
           \E i \in DOMAIN last.ret : last.ret[i] \in C26_Classes[c][2]

C26_PasswordGenerate ==
    /\ (/\ last.op = "password_generate"
        /\ last.arg.length >= Cardinality(C26_Selected)) => C26_Generated
    /\ (last.op = "update_password") =>
           IF last.cmd = "password_generate"
           THEN /\ last.arg.length >= 4
                /\ last.arg.length <= 1024
                /\ C26_Selected # {}
                /\ C26_Generated
           ELSE last.outcome = "invalid"

C26_Witness ==
    /\ last.op = "password_generate"
    /\ last.arg.length = 4
    /\ Cardinality(C26_Selected) = 4
    /\ last.ret = <<"!", "9", "A", "z">>

====
